---- MODULE Spec2Model ----
(***************************************************************************)
(* A model of the freeflow-llm provider layer: the module-level helpers of *)
(* utils.py (error classifier, SSE line parser, error-message extraction,  *)
(* credential lookup, the two transport wrappers) and the Groq and Gemini  *)
(* adapters of providers/, together with the request/stream plumbing they  *)
(* inherit from providers/base.py.                                         *)
(*                                                                         *)
(* A Python str is a TLA+ string.  A JSON value (a vendor reply, an error  *)
(* body) is a record [t, v] tagged with its Python type, so that the       *)
(* code's type-dependent steps (a .get on something that is no dict, the   *)
(* truth value of a field) can be followed.  A message dict handed in by   *)
(* the caller is a function whose DOMAIN is the set of keys it holds.      *)
(* The value None, where it is not a JSON value, is the string "None".     *)
(***************************************************************************)
EXTENDS Integers, Sequences, FiniteSets, TLC

VARIABLES
    environ,   \* the process environment the credential lookup reads
    ctor,      \* the class and the api_key argument the adapter was built with
    self,      \* the adapter instance: its attributes
    gen,       \* the generator a chat_stream call returned, and the transport under it
    obs        \* the last call made: its arguments and what it returned or raised

vars == <<environ, ctor, self, gen, obs>>

None == "None"

(***************************************************************************)
(* Bounds of the model.                                                    *)
(***************************************************************************)
\* padding characters put before and after the core of an error message
MaxPad == 1
\* length of a conversation handed to chat / chat_stream
MaxMsgs == 2
\* number of raw lines the streaming transport delivers
MaxLines == 3
\* number of text fragments a vendor reply is split into
MaxFrags == 3

(***************************************************************************)
(* Text.  A Python str is a TLA+ string; TLC evaluates Len, SubSeq and \o  *)
(* on strings, and the operators below are built from those three.         *)
(***************************************************************************)
UpperCase == "ABCDEFGHIJKLMNOPQRSTUVWXYZ"
LowerCase == "abcdefghijklmnopqrstuvwxyz"

CharAt(s, i) == SubSeq(s, i, i)

LowerChar(c) ==
    IF \E i \in 1..Len(UpperCase) : CharAt(UpperCase, i) = c
    THEN CharAt(LowerCase, CHOOSE i \in 1..Len(UpperCase) : CharAt(UpperCase, i) = c)
    ELSE c

RECURSIVE Lower(_)
\* str.lower()
Lower(s) ==
    IF Len(s) = 0 THEN ""
    ELSE LowerChar(CharAt(s, 1)) \o Lower(SubSeq(s, 2, Len(s)))

\* needle in hay
Contains(hay, needle) ==
    \E i \in 0..(Len(hay) - Len(needle)) :
        SubSeq(hay, i + 1, i + Len(needle)) = needle

\* s.startswith(prefix)
StartsWith(s, prefix) ==
    /\ Len(s) >= Len(prefix)
    /\ SubSeq(s, 1, Len(prefix)) = prefix

Digits == "0123456789"

RECURSIVE IntToStr(_)
\* str(n) for n >= 0
IntToStr(n) ==
    IF n < 10 THEN CharAt(Digits, n + 1)
    ELSE IntToStr(n \div 10) \o CharAt(Digits, (n % 10) + 1)

RECURSIVE Pad(_)
Pad(n) == IF n = 0 THEN "" ELSE "x" \o Pad(n - 1)

\* the cores of the error messages the model feeds to the code: every marker
\* in some letter case, and texts that come close to a marker without holding one
MessageCores ==
    { "rate limit", "Rate Limit", "TOO MANY REQUESTS", "Quota exceeded",
      "RESOURCE exhausted", "ratelimit", "Quota hit", "code 429",
      "bad gateway", "" }

Messages ==
    { Pad(i) \o core \o Pad(j) : i \in 0..MaxPad, j \in 0..MaxPad, core \in MessageCores }

StatusCodes == {0, 400, 429, 500}

(***************************************************************************)
(* JSON values, as json.loads / response.json() hand them to the code.     *)
(***************************************************************************)
JNull == [t |-> "null", v |-> None]
JStr(s) == [t |-> "str", v |-> s]
JInt(n) == [t |-> "int", v |-> n]
JList(q) == [t |-> "list", v |-> q]
JDict(f) == [t |-> "dict", v |-> f]
EmptyDict == JDict(<<>>)

\* type(x).__name__
TypeName(x) == IF x.t = "null" THEN "NoneType" ELSE x.t

\* bool(x)
Truthy(x) ==
    CASE x.t = "null" -> FALSE
      [] x.t = "str"  -> x.v # ""
      [] x.t = "int"  -> x.v # 0
      [] x.t = "list" -> Len(x.v) > 0
      [] x.t = "dict" -> DOMAIN x.v # {}

\* k in d, for a dict d
HasKey(d, k) == k \in DOMAIN d.v

\* d.get(k, default), for a dict d
Get(d, k, default) == IF k \in DOMAIN d.v THEN d.v[k] ELSE default

\* repr(x) of the values that occur in error bodies: str, int, None and dicts
\* of at most one key
RECURSIVE PyRepr(_)
PyRepr(x) ==
    CASE x.t = "null" -> "None"
      [] x.t = "str"  -> "'" \o x.v \o "'"
      [] x.t = "int"  -> IntToStr(x.v)
      [] x.t = "dict" ->
            IF DOMAIN x.v = {} THEN "{}"
            ELSE LET k == CHOOSE k \in DOMAIN x.v : TRUE
                 IN  "{'" \o k \o "': " \o PyRepr(x.v[k]) \o "}"

\* str(x)
PyStr(x) == IF x.t = "str" THEN x.v ELSE PyRepr(x)

(***************************************************************************)
(* Results of a call: a value returned or an exception raised.             *)
(***************************************************************************)
Return(v) == [raised |-> FALSE, value |-> v]
Raise(e) == [raised |-> TRUE, exc |-> e]
\* a step of a generator: the next element, or its end (StopIteration)
Yield(v) == [raised |-> FALSE, stop |-> FALSE, value |-> v]
Stop == [raised |-> FALSE, stop |-> TRUE]

\* an exception of the standard library or of httpx; str(e) is message
Exc(type, message) == [type |-> type, provider |-> None, message |-> message]

\* exceptions.ProviderError(provider, message)
ProviderError(provider, message) ==
    [type |-> "ProviderError", provider |-> provider, message |-> message]

\* exceptions.RateLimitError(provider, message)
RateLimitError(provider, message) ==
    [type |-> "RateLimitError", provider |-> provider, message |-> message]

\* str(e) of the exceptions the adapters' own statements raise
AttributeErrorText(x, attr) ==
    "'" \o TypeName(x) \o "' object has no attribute '" \o attr \o "'"
KeyErrorText(key) == "'" \o key \o "'"
JSONDecodeErrorText == "Expecting value: line 1 column 1 (char 0)"

(***************************************************************************)
(* utils.py                                                                *)
(***************************************************************************)
\* os.getenv(key, default)
get_env_var(env, key, default) == IF key \in DOMAIN env THEN env[key] ELSE default

key_mapping == [groq |-> "GROQ_API_KEY", google |-> "GOOGLE_API_KEY"]

get_api_key(env, provider) ==
    LET p == Lower(provider)
    IN  IF p \in DOMAIN key_mapping
        THEN get_env_var(env, key_mapping[p], None)
        ELSE None

rate_limit_keywords ==
    <<"rate limit", "too many requests", "quota exceeded", "resource exhausted">>

is_rate_limit_error_no_lower(status_code, error_message) ==
    \/ status_code = 429
    \/ \E k \in 1..Len(rate_limit_keywords) :
           Contains(error_message, rate_limit_keywords[k])

is_rate_limit_error(status_code, error_message) ==
    \/ status_code = 429
    \/ LET error_lower == Lower(error_message)
       IN  \E k \in 1..Len(rate_limit_keywords) :
               Contains(error_lower, rate_limit_keywords[k])

(***************************************************************************)
(* An HTTP response as httpx hands it over:                                *)
(*   status_code, text (the body), is_json and data (the body parsed),     *)
(*   read (whether the body has been read: a response opened with          *)
(*   client.stream() has not, and its .json() and .text raise              *)
(*   httpx.ResponseNotRead).                                               *)
(***************************************************************************)
Response(status_code, is_json, data, text, read) ==
    [status_code |-> status_code, is_json |-> is_json, data |-> data,
     text |-> text, read |-> read]

ResponseNotRead ==
    Exc("ResponseNotRead",
        "Attempted to access streaming response content, without having called read().")

\* response.json(): utils.py:190
response_json(response) ==
    IF ~response.read THEN Raise(ResponseNotRead)
    ELSE IF ~response.is_json THEN Raise(Exc("JSONDecodeError", JSONDecodeErrorText))
    ELSE Return(response.data)

\* the handler of utils.py:205-206: response.text or f"HTTP {status}"
error_text_fallback(response) ==
    IF ~response.read THEN Raise(ResponseNotRead)
    ELSE IF response.text # "" THEN Return(response.text)
    ELSE Return("HTTP " \o IntToStr(response.status_code))

extract_error_message(response) ==
    LET parsed == response_json(response)
    IN  IF parsed.raised THEN error_text_fallback(response)
        ELSE LET error_data == parsed.value
             IN  IF error_data.t # "dict"
                 \* "error" in a value that is no container raises TypeError,
                 \* caught at line 205
                 THEN error_text_fallback(response)
                 ELSE IF HasKey(error_data, "error")
                 THEN LET error == error_data.v["error"]
                      IN  IF error.t = "dict"
                          THEN Return(PyStr(Get(error, "message", JStr(PyStr(error)))))
                          ELSE Return(PyStr(error))
                 ELSE IF HasKey(error_data, "message")
                 THEN Return(PyStr(error_data.v["message"]))
                 ELSE Return(PyStr(error_data))

\* make_api_request: one POST on a client of its own, closed on every way out.
\* wire is what the network does with the request.
make_api_request(wire) ==
    CASE wire.kind = "timeout" -> Raise(Exc("TimeoutException", wire.text))
      [] wire.kind = "error"   -> Raise(Exc("ConnectError", wire.text))
      [] wire.kind = "response" ->
            \* client.post reads the body; then response.raise_for_status()
            LET response == [wire.response EXCEPT !.read = TRUE]
            IN  IF response.status_code \notin 200..299
                THEN [raised |-> TRUE,
                      exc |-> Exc("HTTPStatusError",
                                  "HTTP status " \o IntToStr(response.status_code)),
                      response |-> response]
                ELSE response_json(response)

\* utils.py:14; no statement of the package reads it
DEFAULT_MAX_RETRIES == 2

requests_sent_retrying(request, outcome) ==
    IF outcome.raised THEN [i \in 1..(1 + DEFAULT_MAX_RETRIES) |-> request]
    ELSE <<request>>

\* the requests a call hands to the transport, given the outcome of the
\* first: the call of make_api_request / stream_api_request / client.post
\* stands in no loop and every except clause raises, so the first is the last
requests_sent(request, outcome) == <<request>>

(***************************************************************************)
(* json.loads.  The model does not parse JSON character by character: the  *)
(* payloads it feeds to the code are written by the operators below, as    *)
(* text and as the value that text denotes, and json.loads looks the text  *)
(* up among them.  Any other text is not JSON.                             *)
(***************************************************************************)
Quote(s) == "\"" \o s \o "\""

Absent == "<absent>"
\* a field that is present with the JSON value null
Null == "<null>"

\* a JSON string, or null
JStrOrNull(x) == IF x = Null THEN JNull ELSE JStr(x)
QuoteOrNull(x) == IF x = Null THEN "null" ELSE Quote(x)

FragmentTexts == {"", "A", "B"}
VendorFinishReasons ==
    {Absent, Null, "STOP", "MAX_TOKENS", "SAFETY", "RECITATION", "OTHER", "stop",
     "BLOCKLIST"}
GroqFinishReasons == {Absent, "stop", "length"}

\* one chunk of an OpenAI-style stream: a delta with or without content, with
\* or without finish_reason
GroqChunkText(content, finish) ==
    "{\"choices\":[{\"delta\":{"
        \o (IF content = Absent THEN "\"role\":\"assistant\""
            ELSE "\"content\":" \o Quote(content))
        \o "}"
        \o (IF finish = Absent THEN "" ELSE ",\"finish_reason\":" \o Quote(finish))
        \o "}]}"

GroqChunkValue(content, finish) ==
    LET delta == IF content = Absent THEN JDict([role |-> JStr("assistant")])
                 ELSE JDict([content |-> JStr(content)])
        choice == IF finish = Absent THEN JDict([delta |-> delta])
                  ELSE JDict([delta |-> delta, finish_reason |-> JStr(finish)])
    IN  JDict([choices |-> JList(<<choice>>)])

\* one chunk of a Gemini stream: a candidate with or without a text part, with
\* or without finishReason
GeminiChunkText(text, finish) ==
    "{\"candidates\":[{\"content\":{\"parts\":["
        \o (IF text = Absent THEN "" ELSE "{\"text\":" \o Quote(text) \o "}")
        \o "]}"
        \o (IF finish = Absent THEN "" ELSE ",\"finishReason\":" \o QuoteOrNull(finish))
        \o "}]}"

GeminiChunkValue(text, finish) ==
    LET parts == IF text = Absent THEN JList(<<>>)
                 ELSE JList(<<JDict([text |-> JStr(text)])>>)
        content == JDict([parts |-> parts])
        candidate == IF finish = Absent THEN JDict([content |-> content])
                     ELSE JDict([content |-> content, finishReason |-> JStrOrNull(finish)])
    IN  JDict([candidates |-> JList(<<candidate>>)])

JsonFixtures ==
    { [text |-> GroqChunkText(c, f), value |-> GroqChunkValue(c, f)] :
          c \in FragmentTexts \cup {Absent}, f \in GroqFinishReasons }
    \cup
    { [text |-> GeminiChunkText(c, f), value |-> GeminiChunkValue(c, f)] :
          c \in FragmentTexts \cup {Absent}, f \in VendorFinishReasons }
    \cup
    { [text |-> "{}", value |-> EmptyDict],
      [text |-> "{\"candidates\":[]}", value |-> JDict([candidates |-> JList(<<>>)])],
      [text |-> "{\"choices\":[]}", value |-> JDict([choices |-> JList(<<>>)])],
      [text |-> "null", value |-> JNull],
      [text |-> "123", value |-> JInt(123)],
      [text |-> "[1]", value |-> JList(<<JInt(1)>>)] }

RECURSIVE LStrip(_)
LStrip(s) ==
    IF Len(s) > 0 /\ CharAt(s, 1) = " " THEN LStrip(SubSeq(s, 2, Len(s))) ELSE s

RECURSIVE RStrip(_)
RStrip(s) ==
    IF Len(s) > 0 /\ CharAt(s, Len(s)) = " " THEN RStrip(SubSeq(s, 1, Len(s) - 1)) ELSE s

\* str.strip()
Strip(s) == RStrip(LStrip(s))

\* json.loads(text): surrounding whitespace is allowed
json_loads(text) ==
    LET t == Strip(text)
    IN  IF \E x \in JsonFixtures : x.text = t
        THEN Return((CHOOSE x \in JsonFixtures : x.text = t).value)
        ELSE Raise(Exc("JSONDecodeError", JSONDecodeErrorText))

(***************************************************************************)
(* stream_api_request, a generator.  wire is what the network does with    *)
(* the request: it refuses the connection, or answers with a response      *)
(* whose body arrives as wire.lines and then ends (wire.end = "eof") or    *)
(* breaks (a read timeout, any other transport error).                     *)
(***************************************************************************)
\* utils.py:144-148: the client and the stream are opened, the status checked
stream_api_request_open(wire) ==
    CASE wire.kind = "timeout" -> Raise(Exc("TimeoutException", wire.text))
      [] wire.kind = "error"   -> Raise(Exc("ConnectError", wire.text))
      [] wire.kind = "response" ->
            IF wire.response.status_code \notin 200..299
            THEN [raised |-> TRUE,
                  exc |-> Exc("HTTPStatusError",
                              "HTTP status " \o IntToStr(wire.response.status_code)),
                  response |-> wire.response]
            ELSE Return(TRUE)

RECURSIVE stream_api_request_next(_, _)
\* utils.py:150-156: the loop resumed with i raw lines read; it runs to its
\* next yield, to its end or to the exception of a failing read
stream_api_request_next(wire, i) ==
    IF i >= Len(wire.lines)
    THEN CASE wire.end = "eof"     -> [kind |-> "stop", pos |-> i]
           [] wire.end = "timeout" ->
                 [kind |-> "raise", pos |-> i, exc |-> Exc("TimeoutException", wire.text)]
           [] wire.end = "error"   ->
                 [kind |-> "raise", pos |-> i, exc |-> Exc("ReadError", wire.text)]
    ELSE LET line == Strip(wire.lines[i + 1])
         IN  IF StartsWith(line, "data: ")
             THEN LET data == SubSeq(line, 7, Len(line))
                  IN  IF data = "[DONE]" THEN [kind |-> "stop", pos |-> i + 1]
                      ELSE [kind |-> "yield", pos |-> i + 1, data |-> data]
             ELSE stream_api_request_next(wire, i + 1)

parse_sse_line(line) ==
    IF line = "" \/ line = "[DONE]" THEN JNull
    ELSE LET parsed == json_loads(line)
         IN  IF parsed.raised THEN JNull ELSE parsed.value

(***************************************************************************)
(* Names of the package that the adapters import: config.DEFAULT_MODELS    *)
(* and models.FreeFlowResponse.                                            *)
(***************************************************************************)
DEFAULT_MODELS == [groq |-> "llama-3.3-70b-versatile", gemini |-> "gemini-2.5-flash"]

\* FreeFlowResponse.from_dict(data, provider): the canonical response holding
\* the fields of data, tagged with the provider
FreeFlowResponse_from_dict(data, provider) ==
    [id |-> data.id, object |-> data.object, created |-> data.created,
     model |-> data.model, choices |-> data.choices, usage |-> data.usage,
     provider |-> provider]

(***************************************************************************)
(* providers/base.py                                                       *)
(***************************************************************************)
RECURSIVE Remove(_, _)
\* s.replace(old, "")
Remove(s, old) ==
    IF Len(s) < Len(old) \/ Len(old) = 0 THEN s
    ELSE IF StartsWith(s, old) THEN Remove(SubSeq(s, Len(old) + 1, Len(s)), old)
    ELSE CharAt(s, 1) \o Remove(SubSeq(s, 2, Len(s)), old)

\* a or b, for a an optional str
OrElse(a, b) == IF a # None /\ a # "" THEN a ELSE b

BaseProvider_init(cls, api_key, env) ==
    LET name == Lower(Remove(cls, "Provider"))
    IN  [cls |-> cls,
         name |-> name,
         api_key |-> OrElse(api_key, get_api_key(env, name)),
         client |-> "open",
         stream_client |-> "open"]

is_available_always(inst) == TRUE

is_available(inst) == inst.api_key # None

\* the except clauses of _make_request and _stream_request; r is what the
\* try block raised
base_except(inst, r) ==
    CASE r.exc.type = "HTTPStatusError" ->
            LET error_msg == extract_error_message(r.response)
            IN  IF error_msg.raised THEN Raise(error_msg.exc)
                ELSE IF is_rate_limit_error(r.response.status_code, error_msg.value)
                THEN Raise(RateLimitError(inst.name, error_msg.value))
                ELSE Raise(ProviderError(inst.name, error_msg.value))
      [] r.exc.type = "TimeoutException" ->
            Raise(ProviderError(inst.name, "Request timeout: " \o r.exc.message))
      [] OTHER ->
            LET error_str == r.exc.message
            IN  IF Contains(error_str, "429") \/ is_rate_limit_error(0, error_str)
                THEN Raise(RateLimitError(inst.name, error_str))
                ELSE Raise(ProviderError(inst.name, error_str))

\* _make_request: one POST on self.client
base_make_request(inst, wire) ==
    LET r == make_api_request(wire)
    IN  IF r.raised THEN base_except(inst, r) ELSE r

(***************************************************************************)
(* providers/groq.py                                                       *)
(***************************************************************************)
GroqProvider_init(api_key, env) ==
    [BaseProvider_init("GroqProvider", api_key, env)
        EXCEPT !.api_key = OrElse(api_key, get_api_key(env, "groq"))]

groq_build_headers(inst) ==
    [Authorization |-> "Bearer " \o inst.api_key,
     ContentType |-> "application/json"]

\* the except clauses of chat and chat_stream
groq_except(r) ==
    CASE r.exc.type = "HTTPStatusError" ->
            LET error_msg == extract_error_message(r.response)
            IN  IF error_msg.raised THEN Raise(error_msg.exc)
                ELSE IF is_rate_limit_error(r.response.status_code, error_msg.value)
                THEN Raise(RateLimitError("groq", error_msg.value))
                ELSE Raise(ProviderError("groq", error_msg.value))
      [] r.exc.type = "TimeoutException" ->
            Raise(ProviderError("groq", "Request timeout: " \o r.exc.message))
      [] OTHER ->
            LET error_str == r.exc.message
            IN  IF Contains(error_str, "429") \/ is_rate_limit_error(0, error_str)
                THEN Raise(RateLimitError("groq", error_str))
                ELSE Raise(ProviderError("groq", error_str))

\* iterating a value in the list comprehension of groq.py:89-99: the elements,
\* or the TypeError of a value that cannot be iterated
groq_iter(x) ==
    CASE x.t = "list" -> Return(x.v)
      [] x.t = "null" \/ x.t = "int" ->
            Raise(Exc("TypeError", "'" \o TypeName(x) \o "' object is not iterable"))
      [] x.t = "str" -> Return([i \in 1..Len(x.v) |-> JStr(CharAt(x.v, i))])
      [] x.t = "dict" ->
            \* the keys; the model holds no dict of more than one key here
            Return(IF DOMAIN x.v = {} THEN <<>>
                   ELSE <<JStr(CHOOSE k \in DOMAIN x.v : TRUE)>>)

groq_choice_no_default(choice) ==
    LET message == Get(choice, "message", EmptyDict)
    IN  Return([index |-> Get(choice, "index", JInt(0)),
                message |-> [role |-> Get(message, "role", JStr("assistant")),
                             content |-> Get(message, "content", JStr(""))],
                finish_reason |-> Get(choice, "finish_reason", JNull)])

\* one element of the comprehension: groq.py:90-97
groq_choice(choice) ==
    IF choice.t # "dict"
    THEN Raise(Exc("AttributeError", AttributeErrorText(choice, "get")))
    ELSE LET message == Get(choice, "message", EmptyDict)
         IN  IF message.t # "dict"
             THEN Raise(Exc("AttributeError", AttributeErrorText(message, "get")))
             ELSE Return([index |-> Get(choice, "index", JInt(0)),
                          message |-> [role |-> Get(message, "role", JStr("assistant")),
                                       content |-> Get(message, "content", JStr(""))],
                          finish_reason |-> Get(choice, "finish_reason", JStr("stop"))])

\* the usage entry: groq.py:100-108
groq_usage(response_data) ==
    LET usage == Get(response_data, "usage", JNull)
        fields == <<"prompt_tokens", "completion_tokens", "total_tokens">>
    IN  IF ~Truthy(usage) THEN Return(JNull)
        ELSE IF usage.t # "dict"
        THEN Raise(Exc("TypeError", "'" \o TypeName(usage) \o "' object is not subscriptable"))
        ELSE IF \E i \in 1..3 : ~HasKey(usage, fields[i])
        THEN Raise(Exc("KeyError",
                       KeyErrorText(fields[CHOOSE i \in 1..3 :
                            /\ ~HasKey(usage, fields[i])
                            /\ \A j \in 1..(i - 1) : HasKey(usage, fields[j])])))
        ELSE Return(JDict([prompt_tokens |-> usage.v["prompt_tokens"],
                           completion_tokens |-> usage.v["completion_tokens"],
                           total_tokens |-> usage.v["total_tokens"]]))

\* the conversion of the vendor reply: groq.py:83-112
groq_convert(response_data, model, now) ==
    IF response_data.t # "dict"
    THEN Raise(Exc("AttributeError", AttributeErrorText(response_data, "get")))
    ELSE LET items == groq_iter(Get(response_data, "choices", JList(<<>>)))
         IN  IF items.raised THEN items
             ELSE LET converted == [i \in 1..Len(items.value) |-> groq_choice(items.value[i])]
                      usage == groq_usage(response_data)
                  IN  IF \E i \in 1..Len(converted) : converted[i].raised
                      THEN converted[CHOOSE i \in 1..Len(converted) :
                                        /\ converted[i].raised
                                        /\ \A j \in 1..(i - 1) : ~converted[j].raised]
                      ELSE IF usage.raised THEN usage
                      ELSE Return(FreeFlowResponse_from_dict(
                              [id |-> Get(response_data, "id",
                                          JStr("chatcmpl-" \o IntToStr(now))),
                               object |-> "chat.completion",
                               created |-> Get(response_data, "created", JInt(now)),
                               model |-> Get(response_data, "model", JStr(model)),
                               choices |-> [i \in 1..Len(converted) |-> converted[i].value],
                               usage |-> usage.value],
                              "groq"))

\* the request chat and chat_stream build (the sampling parameters, which the
\* code copies from its arguments, are left out)
groq_request(inst, messages, model, stream) ==
    [url |-> "https://api.groq.com/openai/v1" \o "/chat/completions",
     headers |-> groq_build_headers(inst),
     json |-> IF stream
              THEN [model |-> model, messages |-> messages, stream |-> TRUE]
              ELSE [model |-> model, messages |-> messages]]

\* GroqProvider.chat.  The outcome holds what the call returned or raised
\* and the requests it sent.
GroqProvider_chat(inst, messages, model_arg, wire, now) ==
    IF ~is_available(inst)
    THEN [result |-> Raise(ProviderError("groq", "Groq API key missing")), sent |-> <<>>]
    ELSE LET model == IF model_arg = None THEN DEFAULT_MODELS["groq"] ELSE model_arg
             request == groq_request(inst, messages, model, FALSE)
             response_data == make_api_request(wire)
             completion == IF response_data.raised THEN response_data
                           ELSE groq_convert(response_data.value, model, now)
         IN  [result |-> IF completion.raised THEN groq_except(completion) ELSE completion,
              sent |-> requests_sent(request, response_data)]

\* the conversion of one chunk: groq.py:173-190
groq_chunk(chunk_data, model, now) ==
    IF chunk_data.t # "dict"
    THEN Raise(Exc("AttributeError", AttributeErrorText(chunk_data, "get")))
    ELSE LET items == groq_iter(Get(chunk_data, "choices", JList(<<>>)))
         IN  IF items.raised THEN items
             ELSE IF \E i \in 1..Len(items.value) : items.value[i].t # "dict"
             THEN Raise(Exc("AttributeError",
                            AttributeErrorText(
                                items.value[CHOOSE i \in 1..Len(items.value) :
                                    /\ items.value[i].t # "dict"
                                    /\ \A j \in 1..(i - 1) : items.value[j].t = "dict"],
                                "get")))
             ELSE Return(FreeFlowResponse_from_dict(
                     [id |-> Get(chunk_data, "id", JStr("chatcmpl-" \o IntToStr(now))),
                      object |-> "chat.completion.chunk",
                      created |-> Get(chunk_data, "created", JInt(now)),
                      model |-> Get(chunk_data, "model", JStr(model)),
                      choices |-> [i \in 1..Len(items.value) |->
                                     [index |-> Get(items.value[i], "index", JInt(0)),
                                      delta |-> Get(items.value[i], "delta", EmptyDict),
                                      finish_reason |->
                                          Get(items.value[i], "finish_reason", JNull)]],
                      usage |-> JNull],
                     "groq"))

\* the generator has ended: by its return, or by an exception leaving it
Ended(g, pos, conn, inner) ==
    [g EXCEPT !.state = "finished", !.pos = pos, !.conn = conn, !.inner = inner]

\* a build whose interpreter leaves unreachable generators to a later
\* collection
generator_finalize_deferred(g) == g

\* the frame of chat_stream is unwound while the transport generator is
\* suspended at utils.py:155: the for statement held the only reference to
\* it, so the interpreter finalises it at once; GeneratorExit is raised at its
\* yield and leaves the with statement of utils.py:144-147, which closes the
\* response and the client
generator_finalize(g) ==
    [g EXCEPT !.conn = IF @ = "open" THEN "closed" ELSE @,
              !.inner = IF @ = "suspended" THEN "finished" ELSE @]

\* generator.close() on the generator of chat_stream: GeneratorExit is raised
\* at the yield where it is suspended, no except clause of chat_stream catches
\* it (groq.py:193-204, gemini.py:262-277 catch Exception) and the frame is
\* unwound; a generator that has not started ends without running; one that
\* has ended is left as it is
generator_close(g) ==
    CASE g.state = "suspended" ->
            generator_finalize(Ended(g, g.pos, g.conn, g.inner))
      [] g.state = "created" -> Ended(g, g.pos, g.conn, g.inner)
      [] OTHER -> g

RECURSIVE groq_stream_resume(_, _, _)
\* the loop of groq.py:167-191 resumed with i raw lines read, up to the next
\* chunk it yields, its end, or the exception that leaves it
groq_stream_resume(g, i, now) ==
    LET nxt == stream_api_request_next(g.wire, i)
    IN  CASE nxt.kind = "stop" ->
                [gen |-> Ended(g, nxt.pos, "closed", "finished"), result |-> Stop]
          [] nxt.kind = "raise" ->
                [gen |-> Ended(g, nxt.pos, "closed", "finished"),
                 result |-> groq_except(Raise(nxt.exc))]
          [] nxt.kind = "yield" ->
                LET chunk_data == parse_sse_line(nxt.data)
                IN  IF chunk_data.t = "null" THEN groq_stream_resume(g, nxt.pos, now)
                    ELSE LET chunk == groq_chunk(chunk_data, g.model, now)
                         IN  IF chunk.raised
                             \* the transport generator is suspended at its yield,
                             \* inside its with block, when the exception leaves
                             \* the loop
                             THEN [gen |-> generator_finalize(Ended(g, nxt.pos, g.conn, "suspended")),
                                   result |-> groq_except(chunk)]
                             ELSE [gen |-> [g EXCEPT !.state = "suspended",
                                                     !.pos = nxt.pos,
                                                     !.inner = "suspended",
                                                     !.yielded = Append(@, chunk.value)],
                                   result |-> Yield(chunk.value)]

\* the first next() of GroqProvider.chat_stream: groq.py:141-167
groq_stream_start(inst, g, now) ==
    IF ~is_available(inst)
    THEN [gen |-> Ended(g, 0, g.conn, g.inner),
          result |-> Raise(ProviderError("groq", "Groq API key missing"))]
    ELSE LET model == IF g.model = None THEN DEFAULT_MODELS["groq"] ELSE g.model
             request == groq_request(inst, g.messages, model, TRUE)
             opened == stream_api_request_open(g.wire)
             g1 == [g EXCEPT !.model = model, !.sent = requests_sent(request, opened)]
         IN  IF opened.raised
             THEN [gen |-> Ended(g1, 0, "closed", "finished"),
                   result |-> groq_except(opened)]
             ELSE groq_stream_resume([g1 EXCEPT !.conn = "open"], 0, now)

(***************************************************************************)
(* providers/gemini.py                                                     *)
(***************************************************************************)
GeminiProvider_init(api_key, env) ==
    [BaseProvider_init("GeminiProvider", api_key, env)
        EXCEPT !.api_key = OrElse(api_key, get_api_key(env, "google"))]

gemini_build_headers(inst) ==
    [ContentType |-> "application/json",
     x_goog_api_key |-> OrElse(inst.api_key, "")]

RECURSIVE convert_messages_loop(_, _, _, _)
\* the loop of _convert_messages_to_gemini_format from message i on
convert_messages_loop(messages, i, contents, system_instruction) ==
    IF i > Len(messages)
    THEN Return([contents |-> contents, system_instruction |-> system_instruction])
    ELSE LET msg == messages[i]
         IN  IF "role" \notin DOMAIN msg THEN Raise(Exc("KeyError", KeyErrorText("role")))
             ELSE IF "content" \notin DOMAIN msg
             THEN Raise(Exc("KeyError", KeyErrorText("content")))
             ELSE LET role == msg["role"]
                      content == msg["content"]
                  IN  IF role = "system"
                      THEN convert_messages_loop(messages, i + 1, contents, content)
                      ELSE IF role = "user"
                      THEN convert_messages_loop(messages, i + 1,
                              Append(contents, [role |-> "user",
                                                parts |-> <<[text |-> content]>>]),
                              system_instruction)
                      ELSE IF role = "assistant"
                      THEN convert_messages_loop(messages, i + 1,
                              Append(contents, [role |-> "model",
                                                parts |-> <<[text |-> content]>>]),
                              system_instruction)
                      ELSE convert_messages_loop(messages, i + 1, contents,
                                                 system_instruction)

convert_messages_first_system(messages) ==
    LET r == convert_messages_loop(messages, 1, <<>>, None)
        isSystem(i) == "role" \in DOMAIN messages[i] /\ messages[i]["role"] = "system"
    IN  IF r.raised \/ ~\E i \in 1..Len(messages) : isSystem(i) THEN r
        ELSE Return([contents |-> r.value.contents,
                     system_instruction |->
                        messages[CHOOSE i \in 1..Len(messages) :
                                    /\ isSystem(i)
                                    /\ \A j \in 1..(i - 1) : ~isSystem(j)]["content"]])

convert_messages_to_gemini_format(messages) ==
    convert_messages_loop(messages, 1, <<>>, None)

\* the request body: gemini.py:139-153 (generationConfig, which the code
\* copies from its arguments, is left out)
gemini_json_data(contents, system_instruction) ==
    IF system_instruction # None /\ system_instruction # ""
    THEN [contents |-> contents,
          systemInstruction |-> [parts |-> <<[text |-> system_instruction]>>]]
    ELSE [contents |-> contents]

gemini_request(inst, converted, model, method) ==
    [url |-> "https://generativelanguage.googleapis.com/v1beta"
                \o "/models/" \o model \o ":" \o method,
     headers |-> gemini_build_headers(inst),
     json |-> gemini_json_data(converted.contents, converted.system_instruction)]

finish_reason_map ==
    ("STOP" :> "stop") @@ ("MAX_TOKENS" :> "length") @@ ("SAFETY" :> "content_filter")
        @@ ("RECITATION" :> "content_filter") @@ ("OTHER" :> "stop")

\* finish_reason_map.get(key, default), key a JSON value
finish_reason_map_get(key, default) ==
    IF key.t = "str" /\ key.v \in DOMAIN finish_reason_map
    THEN JStr(finish_reason_map[key.v])
    ELSE default

\* candidates[0] and the text of its first part: gemini.py:77-79 and 227-229
gemini_candidate_text(candidates) ==
    IF candidates.t # "list"
    THEN Raise(Exc("TypeError",
                   "'" \o TypeName(candidates) \o "' object is not subscriptable"))
    ELSE LET candidate == candidates.v[1]
         IN  IF candidate.t # "dict"
             THEN Raise(Exc("AttributeError", AttributeErrorText(candidate, "get")))
             ELSE LET content == Get(candidate, "content", EmptyDict)
                  IN  IF content.t # "dict"
                      THEN Raise(Exc("AttributeError", AttributeErrorText(content, "get")))
                      ELSE LET parts == Get(content, "parts", JList(<<>>))
                           IN  IF ~Truthy(parts) THEN Return(JStr(""))
                               ELSE IF parts.t # "list"
                               THEN Raise(Exc("TypeError", "'" \o TypeName(parts)
                                                \o "' object is not subscriptable"))
                               ELSE IF parts.v[1].t # "dict"
                               THEN Raise(Exc("AttributeError",
                                              AttributeErrorText(parts.v[1], "get")))
                               ELSE Return(Get(parts.v[1], "text", JStr("")))

gemini_final_finish_reason_as_chunk(candidate) ==
    LET gemini_finish == Get(candidate, "finishReason", JNull)
    IN  IF Truthy(gemini_finish) THEN finish_reason_map_get(gemini_finish, JNull)
        ELSE JNull

\* gemini.py:81-89
gemini_final_finish_reason(candidate) ==
    LET gemini_finish == Get(candidate, "finishReason", JStr("STOP"))
    IN  finish_reason_map_get(gemini_finish, JStr("stop"))

\* gemini.py:231-239
gemini_chunk_finish_reason(candidate) ==
    LET gemini_finish == Get(candidate, "finishReason", JNull)
    IN  IF Truthy(gemini_finish) THEN finish_reason_map_get(gemini_finish, JNull)
        ELSE JNull

gemini_standard(response_text, finish_reason, model, now) ==
    FreeFlowResponse_from_dict(
        [id |-> JStr("chatcmpl-" \o IntToStr(now)),
         object |-> "chat.completion",
         created |-> JInt(now),
         model |-> JStr(model),
         choices |-> <<[index |-> JInt(0),
                        message |-> [role |-> JStr("model"), content |-> response_text],
                        finish_reason |-> finish_reason]>>,
         usage |-> JNull],
        "gemini")

\* _convert_gemini_response_to_standard
convert_gemini_response_to_standard(response_data, model, now) ==
    IF response_data.t # "dict"
    THEN Raise(Exc("AttributeError", AttributeErrorText(response_data, "get")))
    ELSE LET candidates == Get(response_data, "candidates", JList(<<>>))
         IN  IF ~Truthy(candidates)
             THEN Return(gemini_standard(JStr(""), JStr("stop"), model, now))
             ELSE LET response_text == gemini_candidate_text(candidates)
                  IN  IF response_text.raised THEN response_text
                      ELSE Return(gemini_standard(
                                     response_text.value,
                                     gemini_final_finish_reason(candidates.v[1]),
                                     model, now))

\* the except clauses of chat and chat_stream
gemini_except(r) ==
    CASE r.exc.type = "HTTPStatusError" ->
            LET error_msg == extract_error_message(r.response)
            IN  IF error_msg.raised THEN Raise(error_msg.exc)
                ELSE IF is_rate_limit_error(r.response.status_code, error_msg.value)
                THEN Raise(RateLimitError("gemini", error_msg.value))
                ELSE Raise(ProviderError("gemini", error_msg.value))
      [] r.exc.type = "TimeoutException" ->
            Raise(ProviderError("gemini", "Request timeout: " \o r.exc.message))
      [] OTHER ->
            LET error_str == r.exc.message
            IN  IF \/ Contains(error_str, "429")
                   \/ Contains(Lower(error_str), "quota")
                   \/ is_rate_limit_error(0, error_str)
                THEN Raise(RateLimitError("gemini", error_str))
                ELSE Raise(ProviderError("gemini", error_str))

\* GeminiProvider.chat
GeminiProvider_chat(inst, messages, model_arg, wire, now) ==
    IF ~is_available(inst)
    THEN [result |-> Raise(ProviderError("gemini", "Gemini API key missing")),
          sent |-> <<>>]
    ELSE LET model == IF model_arg = None THEN DEFAULT_MODELS["gemini"] ELSE model_arg
             converted == convert_messages_to_gemini_format(messages)
         IN  IF converted.raised
             \* raised at line 137, before the try of line 155
             THEN [result |-> converted, sent |-> <<>>]
             ELSE LET request == gemini_request(inst, converted.value, model,
                                                "generateContent")
                      response_data == make_api_request(wire)
                      completion ==
                          IF response_data.raised THEN response_data
                          ELSE convert_gemini_response_to_standard(
                                  response_data.value, model, now)
                  IN  [result |-> IF completion.raised THEN gemini_except(completion)
                                  ELSE completion,
                       sent |-> requests_sent(request, response_data)]

gemini_delta_never_content(delta_text) == EmptyDict

\* gemini.py:252
gemini_delta(delta_text) ==
    IF Truthy(delta_text) THEN JDict([content |-> delta_text]) ELSE EmptyDict

\* the conversion of one chunk that has candidates: gemini.py:227-259
gemini_chunk(candidates, model, now) ==
    LET delta_text == gemini_candidate_text(candidates)
    IN  IF delta_text.raised THEN delta_text
        ELSE Return(FreeFlowResponse_from_dict(
                [id |-> JStr("chatcmpl-" \o IntToStr(now)),
                 object |-> "chat.completion.chunk",
                 created |-> JInt(now),
                 model |-> JStr(model),
                 choices |-> <<[index |-> JInt(0),
                                delta |-> gemini_delta(delta_text.value),
                                finish_reason |->
                                    gemini_chunk_finish_reason(candidates.v[1])]>>,
                 usage |-> JNull],
                "gemini"))

RECURSIVE gemini_stream_resume(_, _, _)
\* the loop of gemini.py:218-260 resumed with i raw lines read
gemini_stream_resume(g, i, now) ==
    LET nxt == stream_api_request_next(g.wire, i)
    IN  CASE nxt.kind = "stop" ->
                [gen |-> Ended(g, nxt.pos, "closed", "finished"), result |-> Stop]
          [] nxt.kind = "raise" ->
                [gen |-> Ended(g, nxt.pos, "closed", "finished"),
                 result |-> gemini_except(Raise(nxt.exc))]
          [] nxt.kind = "yield" ->
                LET chunk_data == parse_sse_line(nxt.data)
                IN  IF chunk_data.t = "null" THEN gemini_stream_resume(g, nxt.pos, now)
                    ELSE IF chunk_data.t # "dict"
                    THEN [gen |-> generator_finalize(Ended(g, nxt.pos, g.conn, "suspended")),
                          result |-> gemini_except(Raise(Exc("AttributeError",
                                        AttributeErrorText(chunk_data, "get"))))]
                    ELSE LET candidates == Get(chunk_data, "candidates", JList(<<>>))
                         IN  IF ~Truthy(candidates)
                             THEN gemini_stream_resume(g, nxt.pos, now)
                             ELSE LET chunk == gemini_chunk(candidates, g.model, now)
                                  IN  IF chunk.raised
                                      THEN [gen |-> generator_finalize(Ended(g, nxt.pos, g.conn, "suspended")),
                                            result |-> gemini_except(chunk)]
                                      ELSE [gen |-> [g EXCEPT
                                                       !.state = "suspended",
                                                       !.pos = nxt.pos,
                                                       !.inner = "suspended",
                                                       !.yielded = Append(@, chunk.value)],
                                            result |-> Yield(chunk.value)]

\* the first next() of GeminiProvider.chat_stream: gemini.py:190-218
gemini_stream_start(inst, g, now) ==
    IF ~is_available(inst)
    THEN [gen |-> Ended(g, 0, g.conn, g.inner),
          result |-> Raise(ProviderError("gemini", "Gemini API key missing"))]
    ELSE LET model == IF g.model = None THEN DEFAULT_MODELS["gemini"] ELSE g.model
             converted == convert_messages_to_gemini_format(g.messages)
         IN  IF converted.raised
             \* raised at line 199, before the try of line 217
             THEN [gen |-> Ended(g, 0, g.conn, g.inner), result |-> converted]
             ELSE LET request == gemini_request(inst, converted.value, model,
                                                "streamGenerateContent")
                      opened == stream_api_request_open(g.wire)
                      g1 == [g EXCEPT !.model = model, !.sent = requests_sent(request, opened)]
                  IN  IF opened.raised
                      THEN [gen |-> Ended(g1, 0, "closed", "finished"),
                            result |-> gemini_except(opened)]
                      ELSE gemini_stream_resume([g1 EXCEPT !.conn = "open"], 0, now)

(***************************************************************************)
(* The adapter and its callers.                                            *)
(***************************************************************************)
NoInstance == [cls |-> None]
NoCtor == [cls |-> None]
NoGen == [state |-> "none"]

\* an adapter whose __init__ has run: cls.__init__(self, api_key) with the
\* environment env.  The creation of the object, which comes before __init__,
\* is Instantiate.
Construct(cls, api_key, env) ==
    /\ environ = env
    /\ ctor = [cls |-> cls, api_key |-> api_key]
    /\ self = IF cls = "GroqProvider" THEN GroqProvider_init(api_key, env)
              ELSE GeminiProvider_init(api_key, env)
    /\ gen = NoGen
    /\ obs = [op |-> "__init__"]

\* an adapter whose methods would keep the model of the last call
adapter_after_call_keeping_model(inst, messages, model) ==
    [k \in DOMAIN inst \cup {"last_model"} |->
        IF k = "last_model" THEN model ELSE inst[k]]

\* the attributes of the adapter after chat, or after a step of the generator
\* of chat_stream, called with messages and model: the methods read self
\* (is_available, _build_headers) and assign no attribute of it; messages,
\* model, the request and the response are locals (groq.py:41-204,
\* gemini.py:114-277)
adapter_after_call(inst, messages, model) == inst

\* adapter.is_available()
IsAvailable ==
    /\ self.cls # None
    /\ obs' = [op |-> "is_available", ret |-> is_available(self)]
    /\ UNCHANGED <<environ, ctor, self, gen>>

\* adapter.chat(messages, model=model_arg); wire is what the network does and
\* now the clock
Chat(messages, model_arg, wire, now) ==
    /\ self.cls # None
    /\ LET out == IF self.cls = "GroqProvider"
                  THEN GroqProvider_chat(self, messages, model_arg, wire, now)
                  ELSE GeminiProvider_chat(self, messages, model_arg, wire, now)
       IN  obs' = [op |-> "chat", messages |-> messages, model |-> model_arg,
                   wire |-> wire, result |-> out.result, sent |-> out.sent]
    /\ self' = adapter_after_call(self, messages, model_arg)
    /\ UNCHANGED <<environ, ctor, gen>>

\* adapter._make_request(url, headers, json_data), inherited from BaseProvider
MakeRequest(wire) ==
    /\ self.cls # None
    /\ obs' = [op |-> "_make_request", wire |-> wire,
               result |-> base_make_request(self, wire),
               sent |-> requests_sent([url |-> "endpoint"], make_api_request(wire))]
    /\ UNCHANGED <<environ, ctor, self, gen>>

\* adapter.chat_stream(messages, model=model_arg): a generator is returned and
\* no statement of the method has run yet
ChatStream(messages, model_arg, wire) ==
    /\ self.cls # None
    /\ gen.state \in {"none", "finished"}
    /\ gen' = [state |-> "created", messages |-> messages, model |-> model_arg,
               wire |-> wire, pos |-> 0, conn |-> "unopened", inner |-> "unstarted",
               yielded |-> <<>>, sent |-> <<>>]
    /\ obs' = [op |-> "chat_stream"]
    /\ UNCHANGED <<environ, ctor, self>>

\* next(generator): the method runs to its next yield, to its end, or to the
\* exception that leaves it
StreamNext(now) ==
    /\ gen.state \in {"created", "suspended"}
    /\ LET step ==
            IF self.cls = "GroqProvider"
            THEN IF gen.state = "created" THEN groq_stream_start(self, gen, now)
                 ELSE groq_stream_resume(gen, gen.pos, now)
            ELSE IF gen.state = "created" THEN gemini_stream_start(self, gen, now)
                 ELSE gemini_stream_resume(gen, gen.pos, now)
       IN  /\ gen' = step.gen
           /\ obs' = [op |-> "next", result |-> step.result]
    /\ self' = adapter_after_call(self, gen.messages, gen.model)
    /\ UNCHANGED <<environ, ctor>>

\* generator.close() by the consumer
StreamClose ==
    /\ gen.state # "none"
    /\ gen' = generator_close(gen)
    /\ obs' = [op |-> "close"]
    /\ UNCHANGED <<environ, ctor, self>>

\* the consumer drops a generator it has not exhausted: the interpreter
\* finalises the generator, which is close(), and the object is gone; conn is
\* the state its connection is left in
Abandon ==
    /\ gen.state \in {"created", "suspended"}
    /\ gen' = NoGen
    /\ obs' = [op |-> "del", conn |-> generator_close(gen).conn]
    /\ UNCHANGED <<environ, ctor, self>>

\* the caller drops a generator that has ended
Discard ==
    /\ gen.state = "finished"
    /\ gen' = NoGen
    /\ obs' = [op |-> "del"]
    /\ UNCHANGED <<environ, ctor, self>>

(***************************************************************************)
(* Inputs.                                                                 *)
(***************************************************************************)
ClassNames == {"GroqProvider", "GeminiProvider"}
ApiKeyArgs == {None, "", "sk-arg"}
Environments ==
    { <<>>,
      [GROQ_API_KEY |-> "gsk-env"],
      [GOOGLE_API_KEY |-> "goog-env"],
      [GROQ_API_KEY |-> "gsk-env", GOOGLE_API_KEY |-> "goog-env"],
      [GROQ_API_KEY |-> "", GOOGLE_API_KEY |-> ""] }
Clock == {1700000000}

Hello == <<[role |-> "user", content |-> "hi"]>>

\* the bodies of error responses
ErrorBodies(m) ==
    { [is_json |-> TRUE, text |-> "", data |-> JDict([error |-> JDict([message |-> JStr(m)])])],
      [is_json |-> TRUE, text |-> "", data |-> JDict([error |-> JStr(m)])],
      [is_json |-> TRUE, text |-> "", data |-> JDict([error |-> JDict([code |-> JInt(429)])])],
      [is_json |-> TRUE, text |-> "", data |-> JDict([message |-> JStr(m)])],
      [is_json |-> TRUE, text |-> "", data |-> JDict([detail |-> JStr(m)])],
      [is_json |-> FALSE, text |-> m, data |-> JNull] }

ErrorStatusCodes == {400, 429, 500}

\* the texts of the failures of a request: one with a marker, one with the
\* word quota alone, one with the digits 429, one with none of these, none
FailureTexts == {"Rate Limit", "Quota hit", "code 429", "bad gateway", ""}

\* the texts of the timeouts of the transport
TimeoutTexts == {"timed out", ""}

\* the exceptions the transport raises: a timeout, or any other
TransportErrors ==
    { [kind |-> "timeout", text |-> m] : m \in TimeoutTexts }
    \cup { [kind |-> "error", text |-> m] : m \in FailureTexts }

\* what the network does to a request that fails
FailingWires ==
    { [kind |-> "response", response |-> Response(c, b.is_json, b.data, b.text, FALSE),
       lines |-> <<>>, end |-> "eof", text |-> ""] :
          c \in ErrorStatusCodes, b \in UNION { ErrorBodies(m) : m \in FailureTexts } }
    \cup TransportErrors

(***************************************************************************)
(* Operations on the module-level helpers.                                 *)
(***************************************************************************)
\* a call of the module-level classifier
Classify(status_code, error_message) ==
    /\ obs' = [op |-> "is_rate_limit_error",
               status_code |-> status_code,
               error_message |-> error_message,
               ret |-> is_rate_limit_error(status_code, error_message)]
    /\ UNCHANGED <<environ, ctor, self, gen>>

\* the state after import, before any adapter is built
InitUtils ==
    /\ environ = <<>>
    /\ ctor = NoCtor
    /\ self = NoInstance
    /\ gen = NoGen
    /\ obs = [op |-> "import"]

NextUtils ==
    \E s \in StatusCodes, m \in Messages : Classify(s, m)

SpecUtils == InitUtils /\ [][NextUtils]_vars

\* The marker test of the claim, written without lower(): some window of the
\* message agrees with the marker letter by letter up to case.
MatchesIgnoringCase(window, marker) ==
    /\ Len(window) = Len(marker)
    /\ \A i \in 1..Len(marker) :
           \/ CharAt(window, i) = CharAt(marker, i)
           \/ \E u \in 1..Len(UpperCase) :
                  /\ CharAt(LowerCase, u) = CharAt(marker, i)
                  /\ CharAt(UpperCase, u) = CharAt(window, i)

HoldsMarker(message) ==
    \E marker \in { "rate limit", "too many requests",
                    "quota exceeded", "resource exhausted" } :
        \E i \in 0..(Len(message) - Len(marker)) :
            MatchesIgnoringCase(SubSeq(message, i + 1, i + Len(marker)), marker)

\* C1: is_rate_limit_error(status, message) answers rate-limit exactly when
\* status is 429 or the message holds, in any letter case, one of the four
\* markers; for every other (status, message) pair it answers generic failure.
C1_ClassifierExact ==
    obs.op = "is_rate_limit_error" =>
        (obs.ret <=> (obs.status_code = 429 \/ HoldsMarker(obs.error_message)))

\* C1 witness: a non-429 status with an upper-case marker inside padding is
\* classified as a rate limit.
C1_Witness ==
    /\ obs.op = "is_rate_limit_error"
    /\ obs.status_code = 400
    /\ obs.error_message = "xTOO MANY REQUESTS"
    /\ obs.ret

(***************************************************************************)
(* Wires: what the network does with one request.                          *)
(***************************************************************************)
\* the request is answered 200 with the JSON body data
ReplyWire(data) ==
    [kind |-> "response", response |-> Response(200, TRUE, data, "", FALSE),
     lines |-> <<>>, end |-> "eof", text |-> ""]

\* the request is answered 200 and the body arrives as lines, then ends as
\* end says
StreamWire(lines, end, text) ==
    [kind |-> "response", response |-> Response(200, FALSE, JNull, "", FALSE),
     lines |-> lines, end |-> end, text |-> text]

GroqHello ==
    JDict([id |-> JStr("abc"), created |-> JInt(1000), model |-> JStr("m"),
           choices |-> JList(<<JDict([index |-> JInt(0),
                                      message |-> JDict([role |-> JStr("assistant"),
                                                         content |-> JStr("hello")]),
                                      finish_reason |-> JStr("stop")])>>),
           usage |-> JDict([prompt_tokens |-> JInt(1), completion_tokens |-> JInt(1),
                            total_tokens |-> JInt(2)])])

GeminiHello ==
    JDict([candidates |-> JList(<<JDict([content |-> JDict([parts |->
                                            JList(<<JDict([text |-> JStr("hello")])>>)]),
                                         finishReason |-> JStr("STOP")])>>)])

\* a well-formed reply of the vendor of cls
HelloWire(cls) == ReplyWire(IF cls = "GroqProvider" THEN GroqHello ELSE GeminiHello)

\* a well-formed stream of the vendor of cls
HelloStream(cls) ==
    IF cls = "GroqProvider"
    THEN StreamWire(<<"data: " \o GroqChunkText("A", Absent),
                      "data: " \o GroqChunkText("B", "stop"),
                      "data: [DONE]">>, "eof", "")
    ELSE StreamWire(<<"data: " \o GeminiChunkText("A", Absent),
                      "data: " \o GeminiChunkText("B", "STOP")>>, "eof", "")

\* a vendor reply, or a chunk, that is not what the adapter expects
MalformedReplyWires ==
    { [kind |-> "response", response |-> Response(200, FALSE, JNull, "<html>", FALSE),
       lines |-> <<>>, end |-> "eof", text |-> ""],
      ReplyWire(JList(<<JInt(1)>>)),
      ReplyWire(JDict([choices |-> JNull, candidates |-> JInt(7)])),
      ReplyWire(JDict([choices |-> JList(<<JStr("x")>>),
                       candidates |-> JList(<<JStr("x")>>)])),
      ReplyWire(JDict([choices |-> JList(<<>>),
                       usage |-> JDict([prompt_tokens |-> JInt(1)])])),
      StreamWire(<<"data: 123">>, "eof", ""),
      StreamWire(<<"data: " \o GroqChunkText("A", Absent), "data: [1]">>, "eof", "") }

\* a stream that breaks at a read, with or without a chunk before it
BrokenStreamWires(cls) ==
    { StreamWire(lines, e.kind, e.text) :
        lines \in { <<>>, SubSeq(HelloStream(cls).lines, 1, 1) },
        e \in TransportErrors }

\* conversations: a well-formed one, and one whose message has no content
CallSamples == { Hello, <<[role |-> "user"]>> }

(***************************************************************************)
(* The failures of calls on an adapter that has a credential.              *)
(***************************************************************************)
InitAvailable == \E cls \in ClassNames : Construct(cls, "sk-arg", <<>>)

NextErrors ==
    \/ \E w \in FailingWires \cup MalformedReplyWires, m \in CallSamples, now \in Clock :
           gen = NoGen /\ Chat(m, None, w, now)
    \/ \E w \in FailingWires : gen = NoGen /\ MakeRequest(w)
    \/ \E w \in FailingWires \cup MalformedReplyWires \cup BrokenStreamWires(self.cls),
          m \in CallSamples :
           gen = NoGen /\ ChatStream(m, None, w)
    \/ \E now \in Clock : StreamNext(now)
    \/ Discard

SpecErrors == InitAvailable /\ [][NextErrors]_vars

\* what fails in the call just made: the status (0 when there is none) and
\* the message of the failure, as the Error Classifier is given them
FailureOf(wire) ==
    IF wire.kind = "response"
    THEN [status |-> wire.response.status_code,
          message |-> extract_error_message([wire.response EXCEPT !.read = TRUE]).value]
    ELSE [status |-> 0, message |-> wire.text]

TransportFailed(wire) ==
    \/ wire.kind \in {"timeout", "error"}
    \/ wire.kind = "response" /\ wire.response.status_code \notin 200..299

\* C2: for every failure (HTTP status error, timeout, generic exception with
\* any message text) each adapter (Groq chat, Gemini chat, the base
\* _make_request) raises RateLimited exactly when the Error Classifier says
\* rate-limit for that failure, and ProviderFailure otherwise.
C2_AdaptersFollowClassifier ==
    (obs.op \in {"chat", "_make_request"} /\ TransportFailed(obs.wire)
        /\ (obs.op = "chat" => obs.messages = Hello)) =>
        /\ obs.result.raised
        /\ obs.result.exc.type =
              IF is_rate_limit_error(FailureOf(obs.wire).status, FailureOf(obs.wire).message)
              THEN "RateLimitError" ELSE "ProviderError"

\* C4: every failure of a chat or chat_stream call on an available adapter
\* reaches the caller as RateLimited or ProviderFailure tagged with the
\* provider name; no other exception leaves the call.
C4_OnlyProviderErrors ==
    (obs.op \in {"chat", "next"} /\ obs.result.raised) =>
        /\ obs.result.exc.type \in {"RateLimitError", "ProviderError"}
        /\ obs.result.exc.provider = self.name

(***************************************************************************)
(* The life of an adapter, however it was built.                           *)
(***************************************************************************)
Init ==
    \E cls \in ClassNames, api_key \in ApiKeyArgs, env \in Environments :
        Construct(cls, api_key, env)

\* what the network does in this specification: a good answer, a rate limit,
\* a refused connection
SampleWires(cls) ==
    { HelloWire(cls),
      HelloStream(cls),
      [kind |-> "response",
       response |-> Response(429, FALSE, JNull, "slow down", FALSE),
       lines |-> <<>>, end |-> "eof", text |-> ""],
      [kind |-> "error", text |-> "connection refused"] }

Next ==
    \/ IsAvailable
    \/ \E w \in SampleWires(self.cls), now \in Clock :
           gen = NoGen /\ Chat(Hello, None, w, now)
    \/ \E w \in SampleWires(self.cls) : ChatStream(Hello, None, w)
    \/ \E now \in Clock : StreamNext(now)
    \/ Discard

Spec == Init /\ [][Next]_vars

\* the provider name the credential lookup is given
LookupName(cls) == IF cls = "GroqProvider" THEN "groq" ELSE "google"

\* none passed to the constructor and none found by the credential lookup
NoCredential ==
    /\ ctor.api_key \in {None, ""}
    /\ get_api_key(environ, LookupName(ctor.cls)) = None

\* the error of an adapter without credential
ProviderUnavailable ==
    ProviderError(self.name,
                  (IF self.cls = "GroqProvider" THEN "Groq" ELSE "Gemini")
                      \o " API key missing")

\* C3: for every provider, when no credential is configured, is_available()
\* is false and chat and chat_stream fail with the provider-unavailable error
\* before any request is sent or stream opened, and without yielding a chunk.
C3_NoCredentialUnavailable ==
    NoCredential =>
        /\ obs.op = "is_available" => ~obs.ret
        /\ obs.op = "chat" =>
              /\ obs.result = Raise(ProviderUnavailable)
              /\ obs.sent = <<>>
        /\ obs.op = "next" => obs.result = Raise(ProviderUnavailable)
        /\ gen.state # "none" =>
              /\ gen.sent = <<>>
              /\ gen.conn = "unopened"
              /\ gen.yielded = <<>>
              /\ gen.state \in {"created", "finished"}

\* C3 witness: a Gemini adapter built without key, GROQ_API_KEY alone being
\* set, whose chat_stream has just failed at its first next().
C3_Witness ==
    /\ ctor = [cls |-> "GeminiProvider", api_key |-> None]
    /\ environ = [GROQ_API_KEY |-> "gsk-env"]
    /\ NoCredential
    /\ obs.op = "next"
    /\ obs.result.raised
    /\ gen.state = "finished"

(***************************************************************************)
(* Streams of raw lines.                                                   *)
(***************************************************************************)
\* the raw lines a stream is made of: two chunks, the sentinel, a payload
\* that is not JSON, payloads that are JSON but no object, an object without
\* choices or candidates, an empty payload, a line without the prefix
StreamLines(cls) ==
    (IF cls = "GroqProvider"
     THEN { "data: " \o GroqChunkText("A", Absent),
            "data: " \o GroqChunkText("B", "stop") }
     ELSE { "data: " \o GeminiChunkText("A", Absent),
            "data: " \o GeminiChunkText("B", "STOP") })
    \cup { "data: [DONE]", "data: {oops", "data: 123", "data: {}", "data: ",
           ": ping" }

\* the streams of at most MaxLines lines
Scripts(cls) == UNION { [1..n -> StreamLines(cls)] : n \in 0..MaxLines }

NextStream ==
    \/ \E lines \in Scripts(self.cls) :
           gen = NoGen /\ ChatStream(Hello, None, StreamWire(lines, "eof", ""))
    \/ \E now \in Clock : StreamNext(now)
    \/ Discard

SpecStream == InitAvailable /\ [][NextStream]_vars

\* the line carries the prefix, white space around the line apart
HasPrefix(line) == StartsWith(Strip(line), "data: ")

\* what follows the prefix
Payload(line) == SubSeq(Strip(line), 7, Len(Strip(line)))

IsSentinel(line) == HasPrefix(line) /\ Payload(line) = "[DONE]"

\* the payload parses, and to a JSON object
Usable(data) == ~json_loads(data).raised /\ json_loads(data).value.t = "dict"

RECURSIVE BeforeSentinel(_)
\* the lines that precede the first sentinel
BeforeSentinel(lines) ==
    IF lines = <<>> \/ IsSentinel(lines[1]) THEN <<>>
    ELSE <<lines[1]>> \o BeforeSentinel(Tail(lines))

RECURSIVE UsablePayloads(_)
\* the usable payloads of the prefixed lines, in order
UsablePayloads(lines) ==
    IF lines = <<>> THEN <<>>
    ELSE (IF HasPrefix(lines[1]) /\ Usable(Payload(lines[1]))
          THEN <<json_loads(Payload(lines[1])).value>> ELSE <<>>)
         \o UsablePayloads(Tail(lines))

\* C5: in chat_stream a payload that fails JSON parsing, is empty or is not a
\* JSON object is silently skipped: next() raises no error, the payload is
\* not counted as a yielded chunk, and the sequence goes on to the end of the
\* stream or to the sentinel.
C5_MalformedPayloadSkipped ==
    gen.state # "none" =>
        /\ obs.op = "next" => ~obs.result.raised
        /\ Len(gen.yielded) <= Len(UsablePayloads(SubSeq(gen.wire.lines, 1, gen.pos)))
        /\ gen.state = "finished" =>
              \/ gen.pos = Len(gen.wire.lines)
              \/ IsSentinel(gen.wire.lines[gen.pos])

\* what a chunk says, choice by choice
ChunkView(chunk) ==
    [i \in 1..Len(chunk.choices) |->
        [delta |-> chunk.choices[i].delta,
         finish_reason |-> chunk.choices[i].finish_reason]]

\* what an OpenAI-style payload says, choice by choice
PayloadView(value) ==
    LET choices == Get(value, "choices", JList(<<>>)).v
    IN  [i \in 1..Len(choices) |->
            [delta |-> Get(choices[i], "delta", EmptyDict),
             finish_reason |-> Get(choices[i], "finish_reason", JNull)]]

\* the text of the delta of the first choice of a chunk, "" when it has none
DeltaContent(chunk) ==
    IF Len(chunk.choices) = 0 THEN ""
    ELSE LET content == Get(chunk.choices[1].delta, "content", JStr(""))
         IN  IF content.t = "str" THEN content.v ELSE ""

RECURSIVE Concatenated(_)
\* the contents of the chunks, concatenated in order
Concatenated(chunks) ==
    IF chunks = <<>> THEN ""
    ELSE DeltaContent(chunks[1]) \o Concatenated(Tail(chunks))

\* C6: for any sequence of raw lines the Groq chat_stream yields, in arrival
\* order, one chunk per line that has the prefix and a usable payload and
\* precedes the first sentinel; the other lines yield nothing and the
\* sequence ends at the sentinel, without error.
C6_OneChunkPerDataLine ==
    (self.cls = "GroqProvider" /\ gen.state \in {"suspended", "finished"}) =>
        LET read == BeforeSentinel(SubSeq(gen.wire.lines, 1, gen.pos))
            expected == UsablePayloads(read)
        IN  /\ obs.op = "next" => ~obs.result.raised
            /\ Len(gen.yielded) = Len(expected)
            /\ \A i \in 1..Len(expected) :
                  ChunkView(gen.yielded[i]) = PayloadView(expected[i])
            /\ gen.state = "finished" =>
                  \/ gen.pos = Len(gen.wire.lines)
                  \/ IsSentinel(gen.wire.lines[gen.pos])

(***************************************************************************)
(* One text, streamed in fragments and returned whole.                     *)
(***************************************************************************)
\* the splits of a text in at most MaxFrags fragments
FragLists == UNION { [1..n -> FragmentTexts] : n \in 0..MaxFrags }

RECURSIVE Join(_)
Join(frags) == IF frags = <<>> THEN "" ELSE frags[1] \o Join(Tail(frags))

\* the vendor streams the fragments, the last one with the finish reason
FragStream(cls, frags) ==
    LET n == Len(frags)
    IN  IF cls = "GroqProvider"
        THEN StreamWire(
                <<"data: " \o GroqChunkText(Absent, Absent)>>
                \o [i \in 1..n |-> "data: " \o GroqChunkText(
                                        frags[i], IF i = n THEN "stop" ELSE Absent)]
                \o <<"data: [DONE]">>,
                "eof", "")
        ELSE StreamWire(
                [i \in 1..n |-> "data: " \o GeminiChunkText(
                                    frags[i], IF i = n THEN "STOP" ELSE Absent)],
                "eof", "")

\* the vendor returns the same text in one reply
FragReply(cls, frags) ==
    IF cls = "GroqProvider"
    THEN ReplyWire(JDict([choices |-> JList(<<JDict(
            [index |-> JInt(0),
             message |-> JDict([role |-> JStr("assistant"),
                                content |-> JStr(Join(frags))]),
             finish_reason |-> JStr("stop")])>>)]))
    ELSE ReplyWire(JDict([candidates |-> JList(<<JDict(
            [content |-> JDict([parts |-> JList(<<JDict([text |-> JStr(Join(frags))])>>)]),
             finishReason |-> JStr("STOP")])>>)]))

\* the caller streams a text, and once the stream has ended asks for the same
\* text without streaming
NextEquiv ==
    \/ \E frags \in FragLists :
           gen = NoGen /\ ChatStream(Hello, None, FragStream(self.cls, frags))
    \/ \E now \in Clock : StreamNext(now)
    \/ \E frags \in FragLists, now \in Clock :
           /\ gen.state = "finished"
           /\ gen.wire = FragStream(self.cls, frags)
           /\ Chat(Hello, None, FragReply(self.cls, frags), now)
    \/ Discard

SpecEquiv == InitAvailable /\ [][NextEquiv]_vars

\* the stream that has ended and the chat just made were fed the same text
EquivalentFixtures ==
    /\ gen.state = "finished"
    /\ obs.op = "chat"
    /\ \E frags \in FragLists :
          /\ gen.wire = FragStream(self.cls, frags)
          /\ obs.wire = FragReply(self.cls, frags)

\* C7: for each adapter, the contents of the non-empty deltas of the chunks
\* chat_stream yielded, concatenated in emission order, equal the message
\* content chat returns when both are fed the same text, streamed in
\* fragments for the one and whole for the other.
C7_StreamEqualsChat ==
    EquivalentFixtures =>
        /\ ~obs.result.raised
        /\ Len(obs.result.value.choices) = 1
        /\ obs.result.value.choices[1].message.content
              = JStr(Concatenated(gen.yielded))

\* C7 witness: Gemini streamed "A" then "B" in two chunks and chat returned
\* "AB".
C7_Witness ==
    /\ EquivalentFixtures
    /\ self.cls = "GeminiProvider"
    /\ gen.wire = FragStream("GeminiProvider", <<"A", "B">>)
    /\ Len(gen.yielded) = 2
    /\ obs.result.value.choices[1].message.content = JStr("AB")

(***************************************************************************)
(* The requests the Gemini adapter builds.                                 *)
(***************************************************************************)
SampleMessages ==
    { [role |-> "system", content |-> "be terse"],
      [role |-> "system", content |-> "be kind"],
      [role |-> "system", content |-> ""],
      [role |-> "user", content |-> "hi"],
      [role |-> "assistant", content |-> "yo"],
      [role |-> "tool", content |-> "42"] }

\* the conversations of at most MaxMsgs messages
MessageLists == UNION { [1..n -> SampleMessages] : n \in 0..MaxMsgs }

InitGemini == Construct("GeminiProvider", "sk-arg", <<>>)

NextRequest ==
    \/ \E m \in MessageLists, now \in Clock :
           gen = NoGen /\ Chat(m, None, HelloWire("GeminiProvider"), now)
    \/ \E m \in MessageLists :
           gen = NoGen /\ ChatStream(m, None, HelloStream("GeminiProvider"))
    \/ \E now \in Clock : StreamNext(now)
    \/ Discard

SpecRequest == InitGemini /\ [][NextRequest]_vars

RECURSIVE ExpectedContents(_)
\* the user and assistant messages, in order, in the vendor's shape
ExpectedContents(messages) ==
    IF messages = <<>> THEN <<>>
    ELSE (CASE messages[1].role = "user" ->
                  <<[role |-> "user", parts |-> <<[text |-> messages[1].content]>>]>>
            [] messages[1].role = "assistant" ->
                  <<[role |-> "model", parts |-> <<[text |-> messages[1].content]>>]>>
            [] OTHER -> <<>>)
         \o ExpectedContents(Tail(messages))

SystemMessages(messages) == SelectSeq(messages, LAMBDA m : m.role = "system")

\* the text of the last system message
LastSystemText(messages) ==
    SystemMessages(messages)[Len(SystemMessages(messages))].content

\* the request bodies sent so far, each with the conversation it was built from
BodiesSent ==
    (IF obs.op = "chat"
     THEN { [messages |-> obs.messages, json |-> obs.sent[i].json] :
                i \in 1..Len(obs.sent) }
     ELSE {})
    \cup
    (IF gen.state # "none"
     THEN { [messages |-> gen.messages, json |-> gen.sent[i].json] :
                i \in 1..Len(gen.sent) }
     ELSE {})

\* the body carries the text as its system instruction
HasSystemInstruction(json, text) ==
    /\ "systemInstruction" \in DOMAIN json
    /\ json.systemInstruction = [parts |-> <<[text |-> text]>>]

\* C8 as stated: system messages are excluded from contents, which holds the
\* user and assistant messages in order (assistant as model);
\* systemInstruction is the text of the last system message, and is absent
\* when there is no system message.
C8_AsStated ==
    \A b \in BodiesSent :
        /\ b.json.contents = ExpectedContents(b.messages)
        /\ IF SystemMessages(b.messages) = <<>>
           THEN "systemInstruction" \notin DOMAIN b.json
           ELSE HasSystemInstruction(b.json, LastSystemText(b.messages))

\* C8 amended: as stated, except that systemInstruction is also absent when
\* the text of the last system message is empty.
C8_GeminiRequestConversion ==
    \A b \in BodiesSent :
        /\ b.json.contents = ExpectedContents(b.messages)
        /\ IF SystemMessages(b.messages) = <<>> \/ LastSystemText(b.messages) = ""
           THEN "systemInstruction" \notin DOMAIN b.json
           ELSE HasSystemInstruction(b.json, LastSystemText(b.messages))

\* C8 witness: chat with a system message "be terse" and a user message "hi"
\* has sent systemInstruction "be terse" and the user message alone as contents.
C8_Witness ==
    /\ obs.op = "chat"
    /\ obs.messages = <<[role |-> "system", content |-> "be terse"],
                        [role |-> "user", content |-> "hi"]>>
    /\ Len(obs.sent) = 1
    /\ obs.sent[1].json =
          [contents |-> <<[role |-> "user", parts |-> <<[text |-> "hi"]>>]>>,
           systemInstruction |-> [parts |-> <<[text |-> "be terse"]>>]]

(***************************************************************************)
(* The replies of the vendors.                                             *)
(***************************************************************************)
\* Gemini replies: no candidates, or one candidate with or without text and
\* with every finish reason
GeminiReplies ==
    { EmptyDict, JDict([candidates |-> JList(<<>>)]) }
    \cup { GeminiChunkValue(c, f) : c \in {Absent, "A"}, f \in VendorFinishReasons }

\* Groq replies: with or without choices, identification and usage
GroqReplies ==
    LET full == JDict([index |-> JInt(0),
                       message |-> JDict([role |-> JStr("assistant"),
                                          content |-> JStr("hello")]),
                       finish_reason |-> JStr("length")])
        second == JDict([index |-> JInt(1),
                         message |-> JDict([role |-> JStr("tool"),
                                            content |-> JStr("bye")]),
                         finish_reason |-> JNull])
        usage == JDict([prompt_tokens |-> JInt(1), completion_tokens |-> JInt(1),
                        total_tokens |-> JInt(2)])
        ident == [id |-> JStr("abc"), created |-> JInt(1000), model |-> JStr("m")]
    IN  { JDict(i @@ c @@ u) :
            i \in { <<>>, ident },
            c \in { <<>>, [choices |-> JList(<<>>)], [choices |-> JList(<<full>>)],
                    [choices |-> JList(<<EmptyDict>>)],
                    [choices |-> JList(<<full, EmptyDict>>)],
                    [choices |-> JList(<<second, full>>)] },
            u \in { <<>>, [usage |-> JNull], [usage |-> usage],
                    [usage |-> EmptyDict],
                    [usage |-> JDict([prompt_tokens |-> JInt(1)])] } }

Replies(cls) ==
    { ReplyWire(data) : data \in IF cls = "GroqProvider" THEN GroqReplies
                                 ELSE GeminiReplies }

\* streams of one chunk
ChunkStreams(cls) ==
    IF cls = "GroqProvider"
    THEN { StreamWire(<<"data: " \o GroqChunkText(c, f)>>, "eof", "") :
              c \in FragmentTexts \cup {Absent}, f \in GroqFinishReasons }
    ELSE { StreamWire(<<"data: " \o GeminiChunkText(c, f)>>, "eof", "") :
              c \in {Absent, "A"}, f \in VendorFinishReasons }

NextReply ==
    \/ \E w \in Replies(self.cls), now \in Clock :
           gen = NoGen /\ Chat(Hello, None, w, now)
    \/ \E w \in ChunkStreams(self.cls) : gen = NoGen /\ ChatStream(Hello, None, w)
    \/ \E now \in Clock : StreamNext(now)
    \/ Discard

SpecReply == InitAvailable /\ [][NextReply]_vars

\* the finish reason the vendor gave in a reply or a chunk: a JSON value,
\* null when the candidate has none or when there is no candidate
VendorFinish(data) ==
    LET candidates == Get(data, "candidates", JList(<<>>))
    IN  IF candidates.v = <<>> THEN JNull
        ELSE Get(candidates.v[1], "finishReason", JNull)

\* the remap of the claim: the canonical value, or default for a vendor
\* value that is not in the table
Remapped(vendor, default) ==
    CASE vendor = JStr("STOP") -> JStr("stop")
      [] vendor = JStr("MAX_TOKENS") -> JStr("length")
      [] vendor = JStr("SAFETY") -> JStr("content_filter")
      [] vendor = JStr("RECITATION") -> JStr("content_filter")
      [] vendor = JStr("OTHER") -> JStr("stop")
      [] OTHER -> default

\* C9: the Gemini remap is STOP->stop, MAX_TOKENS->length,
\* SAFETY->content_filter, RECITATION->content_filter, OTHER->stop, case
\* sensitive; a vendor value that is unmapped or absent (an empty candidates
\* list included) gives "stop" in a non-streaming response and None in a
\* streaming chunk.
C9_FinishReasonRemap ==
    self.cls = "GeminiProvider" =>
        /\ obs.op = "chat" =>
              /\ ~obs.result.raised
              /\ Len(obs.result.value.choices) = 1
              /\ obs.result.value.choices[1].finish_reason
                    = Remapped(VendorFinish(obs.wire.response.data), JStr("stop"))
        /\ \A i \in 1..(IF gen.state = "none" THEN 0 ELSE Len(gen.yielded)) :
              gen.yielded[i].choices[1].finish_reason
                  = Remapped(VendorFinish(json_loads(Payload(gen.wire.lines[i])).value),
                             JNull)

\* C9 witness: a chunk whose vendor value is lower-case "stop", which the
\* table does not hold, was yielded with finish_reason None.
C9_Witness ==
    /\ self.cls = "GeminiProvider"
    /\ gen.state # "none"
    /\ gen.wire.lines = <<"data: " \o GeminiChunkText("A", "stop")>>
    /\ Len(gen.yielded) = 1
    /\ gen.yielded[1].choices[1].finish_reason = JNull

\* C10: every canonical response a non-streaming chat call returns has a
\* non-empty choices sequence.
C10_ChoicesNonEmpty ==
    (obs.op = "chat" /\ ~obs.result.raised) => Len(obs.result.value.choices) >= 1

\* the usage of a vendor reply that includes the three counts, else null
VendorUsage(data) ==
    LET usage == Get(data, "usage", JNull)
    IN  IF /\ usage.t = "dict"
           /\ {"prompt_tokens", "completion_tokens", "total_tokens"} \subseteq DOMAIN usage.v
        THEN JDict([prompt_tokens |-> usage.v["prompt_tokens"],
                    completion_tokens |-> usage.v["completion_tokens"],
                    total_tokens |-> usage.v["total_tokens"]])
        ELSE JNull

\* the canonical choice holds what the vendor's choice holds
SameChoice(canonical, vendor) ==
    LET message == Get(vendor, "message", EmptyDict)
    IN  /\ HasKey(vendor, "index") => canonical.index = vendor.v["index"]
        /\ HasKey(message, "role") => canonical.message.role = message.v["role"]
        /\ HasKey(message, "content") => canonical.message.content = message.v["content"]
        /\ canonical.finish_reason = Get(vendor, "finish_reason", JStr("stop"))

BaseProvider_abstractmethods ==
    {"get_api_base_url", "build_request_headers", "build_request_payload",
     "parse_response", "parse_stream_chunk"}

\* the names each class body defines
ClassBody(cls) ==
    CASE cls = "BaseProvider" ->
            BaseProvider_abstractmethods
            \cup {"__init__", "is_available", "_make_request", "_stream_request",
                  "chat", "chat_stream", "__del__", "__str__", "__repr__"}
      [] cls = "GroqProvider" ->
            {"GROQ_API_BASE", "__init__", "is_available", "_build_headers", "chat",
             "chat_stream"}
      [] cls = "GeminiProvider" ->
            {"GEMINI_API_BASE", "__init__", "is_available", "_build_headers",
             "_convert_messages_to_gemini_format",
             "_convert_gemini_response_to_standard", "chat", "chat_stream"}

\* cls.__abstractmethods__, as ABCMeta computes it when the class is made:
\* the abstract names of the base that the class body does not define
abstractmethods(cls) ==
    IF cls = "BaseProvider" THEN BaseProvider_abstractmethods
    ELSE BaseProvider_abstractmethods \ ClassBody(cls)

AllClassNames == ClassNames \cup {"BaseProvider"}

\* cls(api_key): object creation refuses a class that has abstract methods
\* left, before __init__ runs
Instantiate(cls, api_key) ==
    /\ self = NoInstance
    /\ IF abstractmethods(cls) # {}
       THEN /\ obs' = [op |-> "instantiate", cls |-> cls, api_key |-> api_key,
                       result |-> Raise(Exc("TypeError",
                                    "Can't instantiate abstract class " \o cls))]
            /\ UNCHANGED <<environ, ctor, self, gen>>
       ELSE /\ ctor' = [cls |-> cls, api_key |-> api_key]
            /\ self' = IF cls = "GroqProvider" THEN GroqProvider_init(api_key, environ)
                       ELSE GeminiProvider_init(api_key, environ)
            /\ obs' = [op |-> "instantiate", cls |-> cls, api_key |-> api_key,
                       result |-> Return(TRUE)]
            /\ UNCHANGED <<environ, gen>>

\* the package imported, no adapter built
InitClasses ==
    /\ environ \in Environments
    /\ ctor = NoCtor
    /\ self = NoInstance
    /\ gen = NoGen
    /\ obs = [op |-> "import"]

\* what a caller can do with the package: call the helpers of utils, and
\* ask for an adapter
NextClasses ==
    \/ \E status \in StatusCodes, m \in Messages : Classify(status, m)
    \/ \E cls \in AllClassNames, api_key \in ApiKeyArgs : Instantiate(cls, api_key)

SpecClasses == InitClasses /\ [][NextClasses]_vars

\* C12: Groq and Gemini implement every capability the contract requires, so
\* that creating an adapter of either class succeeds and chat / chat_stream
\* can be called on it.
C12_AdaptersImplementContract ==
    (obs.op = "instantiate" /\ obs.cls \in ClassNames) =>
        /\ abstractmethods(obs.cls) = {}
        /\ ~obs.result.raised
        /\ self.cls = obs.cls

\* C13: the core never retries: a chat call (and _make_request) hands at
\* most one request to the transport and a chat_stream call opens at most one
\* stream, whether the request succeeds, is rate limited or fails otherwise;
\* a call that has failed has raised its error with that one request sent.
C13_NoRetry ==
    /\ obs.op \in {"chat", "_make_request"} => Len(obs.sent) <= 1
    /\ gen.state # "none" => Len(gen.sent) <= 1
    /\ (obs.op \in {"chat", "_make_request"} /\ TransportFailed(obs.wire)) =>
          obs.result.raised
    /\ (obs.op = "next" /\ TransportFailed(gen.wire)) =>
          /\ obs.result.raised
          /\ gen.state = "finished"

\* C13 witness: a chat call answered 429 has raised RateLimitError with one
\* request sent.
C13_Witness ==
    /\ obs.op = "chat"
    /\ obs.wire.kind = "response"
    /\ obs.wire.response.status_code = 429
    /\ obs.result.raised
    /\ obs.result.exc.type = "RateLimitError"
    /\ Len(obs.sent) = 1

(***************************************************************************)
(* Streams that break at a read.                                           *)
(***************************************************************************)
\* next(generator) on a generator that has ended: StopIteration, whatever
\* ended it
StreamNextAfterEnd ==
    /\ gen.state = "finished"
    /\ obs' = [op |-> "next", result |-> Stop, after_end |-> TRUE]
    /\ UNCHANGED <<environ, ctor, self, gen>>

\* the lines that arrive before the read that fails
LinesBeforeFailure(cls) ==
    (IF cls = "GroqProvider"
     THEN { "data: " \o GroqChunkText("A", Absent),
            "data: " \o GroqChunkText("B", Absent) }
     ELSE { "data: " \o GeminiChunkText("A", Absent),
            "data: " \o GeminiChunkText("B", Absent) })
    \cup { "data: {oops", "data: 123", ": ping" }

\* the streams that deliver at most MaxLines lines and then fail at a read
FailingStreams(cls) ==
    { StreamWire(lines, e.kind, e.text) :
        lines \in UNION { [1..n -> LinesBeforeFailure(cls)] : n \in 0..MaxLines },
        e \in TransportErrors }

NextBroken ==
    \/ \E w \in FailingStreams(self.cls) : gen = NoGen /\ ChatStream(Hello, None, w)
    \/ \E now \in Clock : StreamNext(now)
    \/ StreamNextAfterEnd
    \/ Discard

SpecBroken == InitAvailable /\ [][NextBroken]_vars

\* the chunks are those of the usable payloads of the lines
ChunksOf(chunks, lines) ==
    LET expected == UsablePayloads(lines)
    IN  /\ Len(chunks) = Len(expected)
        /\ self.cls = "GroqProvider" =>
              \A i \in 1..Len(expected) : ChunkView(chunks[i]) = PayloadView(expected[i])

ReleaseLines(cls) ==
    { IF cls = "GroqProvider" THEN "data: " \o GroqChunkText("A", Absent)
                              ELSE "data: " \o GeminiChunkText("A", Absent),
      "data: 123", "data: [DONE]", ": ping" }

\* streams that end, or break, after at most MaxLines lines, and requests
\* that fail before any line
ReleaseWires(cls) ==
    { StreamWire(lines, end, "") :
        lines \in UNION { [1..n -> ReleaseLines(cls)] : n \in 0..MaxLines },
        end \in {"eof", "timeout", "error"} }
    \cup FailingWires

NextRelease ==
    \/ \E w \in ReleaseWires(self.cls) : gen = NoGen /\ ChatStream(Hello, None, w)
    \/ \E now \in Clock : StreamNext(now)
    \/ StreamNextAfterEnd
    \/ StreamClose
    \/ Abandon
    \/ Discard

SpecRelease == InitAvailable /\ [][NextRelease]_vars

ModelArgs == {None, "llama-3.1-8b-instant"}

\* what the network does in this specification: a good answer, a stream that
\* breaks after its first chunk, a rate limit, a refused connection
FrameWires(cls) ==
    SampleWires(cls)
    \cup { StreamWire(SubSeq(HelloStream(cls).lines, 1, 1), "error", "") }

NextFrame ==
    \/ IsAvailable
    \/ \E model \in ModelArgs, w \in FrameWires(self.cls), now \in Clock :
           gen = NoGen /\ Chat(Hello, model, w, now)
    \/ \E model \in ModelArgs, w \in FrameWires(self.cls) :
           gen = NoGen /\ ChatStream(Hello, model, w)
    \/ \E now \in Clock : StreamNext(now)
    \/ StreamClose
    \/ Abandon
    \/ Discard

SpecFrame == Init /\ [][NextFrame]_vars

\* the adapter as its construction made it
Constructed ==
    IF ctor.cls = "GroqProvider" THEN GroqProvider_init(ctor.api_key, environ)
    ELSE GeminiProvider_init(ctor.api_key, environ)

\* C16: after construction, whatever chat and chat_stream calls are made
\* (succeeding, failing, abandoned mid-stream), the adapter is as construction
\* made it: same provider name and credential, hence the same is_available()
\* result, and no attribute holding data of a call.
C16_AdapterUnchanged ==
    /\ self = Constructed
    /\ DOMAIN self = {"cls", "name", "api_key", "client", "stream_client"}
    /\ self.name = Lower(Remove(ctor.cls, "Provider"))
    /\ obs.op = "is_available" => obs.ret = (Constructed.api_key # None)

\* C16 witness: a stream of an adapter with a key was abandoned after its
\* first chunk, with its connection open, and the adapter is unchanged.
C16_Witness ==
    /\ obs.op = "del"
    /\ "conn" \in DOMAIN obs
    /\ obs.conn = "closed"
    /\ self.api_key = "gsk-env"
    /\ self = Constructed

====
